---- MODULE Spec2Model ----
(***************************************************************************)
(* Model of src/lib.rs (ibr): the aggregation engine                       *)
(* fetch_organization_data, which lists the repositories of an             *)
(* organization, lists the open pull requests of each repository and folds *)
(* the requested reviewers into an Organization value.                     *)
(*                                                                         *)
(* The remote API is the environment: every response (transport outcome,   *)
(* HTTP status, body) is drawn from bounded sets when it is received; the  *)
(* status and the body are independent, as the code never reads the        *)
(* status. JSON values (serde_json::Value) are records tagged by t, and a  *)
(* key that is missing reads as Null. An unwrap() on None ends the run at  *)
(* pc = "panicked": the future never resolves and result stays unset.      *)
(***************************************************************************)
EXTENDS Integers, Sequences, FiniteSets, TLC

VARIABLES
    form,          \* Form {organization, token} handed to the run
    pc,            \* position of the run inside fetch_organization_data
    org,           \* let mut org = Organization {reviewers, repositories}
    repositories,  \* Vec<Repository> decoded from the repository list (names)
    i,             \* index of `repository` in `for repository in &mut repositories`
    pulls,         \* Vec<serde_json::Value> decoded from the pull-request list
    j,             \* index of `pull` in `for pull in pulls`
    reviewers,     \* the array pull["requested_reviewers"]
    k,             \* index of `reviewer` in `for reviewer in reviewers`
    requests,      \* requests issued through `client`, in order
    response,      \* outcome of send()/text() for the request awaited last
    repositories_response,  \* text of the repository-list response
    pulls_response,         \* text of the pull-request response of this iteration
    result,        \* what the future resolves to: Result<Organization>
    api_url,       \* a string handed to the URL rewrite on its own
    rewritten,     \* the strings the rewrite returned, applied again to its output
    model,         \* Model {form, organization, error_message, loading}
    effects,       \* messages queued for update(), oldest first
    storage,       \* LocalStorage: the keys "organization" and "token"
    futures,       \* the futures of perform_cmd that wait at an await point
    task,          \* number of the future whose state the run variables hold
    spawned,       \* number of futures handed to perform_cmd so far
    edits,         \* number of input events so far
    fetched        \* the DataFetched messages processed so far, oldest first

\* the state of one run of fetch_organization_data
run == <<form, pc, org, repositories, i, pulls, j, reviewers, k, requests, response,
         repositories_response, pulls_response, result>>

\* the state of the rewrite applied on its own
rewriter == <<api_url, rewritten>>

\* the state of the page around update()
page == <<model, effects, storage, futures, task, spawned, edits, fetched>>

\* what a step of fetch_organization_data leaves alone
elsewhere == <<rewriter, page>>

vars == <<run, rewriter, page>>

-----------------------------------------------------------------------------
(* Bounds of the model *)

MaxRepos == 2
MaxPulls == 2
MaxReviewers == 2
MaxFragments == 3
MaxApplications == 2
MaxRuns == 2
MaxEdits == 1

SeqsUpTo(S, n) == UNION {[1..m -> S] : m \in 0..n}

-----------------------------------------------------------------------------
(* serde_json::Value *)

Null == [t |-> "Null"]
String(s) == [t |-> "String", s |-> s]
Number(n) == [t |-> "Number", n |-> n]
Array(a) == [t |-> "Array", a |-> a]

\* a conversion that yields the characters of a string as they are
to_string_raw(v) ==
    CASE v.t = "Null" -> "null"
      [] v.t = "String" -> v.s
      [] v.t = "Number" -> ToString(v.n)

\* Display of a Value: compact JSON text; a string is written inside quotes
to_string(v) ==
    CASE v.t = "Null" -> "null"
      [] v.t = "String" -> "\"" \o v.s \o "\""
      [] v.t = "Number" -> ToString(v.n)

\* Option<T>
None == [some |-> FALSE, value |-> <<>>]
Some(x) == [some |-> TRUE, value |-> x]

\* Value::as_array: Some(vec) for an array, None for anything else
as_array(v) == IF v.t = "Array" THEN Some(v.a) ELSE None

\* Value::as_str: Some(&str) for a string, None for anything else
as_str(v) == IF v.t = "String" THEN Some(v.s) ELSE None

-----------------------------------------------------------------------------
(* str::replace on strings held as sequences of characters: every          *)
(* non-overlapping match of `from`, scanning from the left, becomes `to`.  *)

RECURSIVE replace(_, _, _)
replace(s, from, to) ==
    IF Len(s) < Len(from) THEN s
    ELSE IF SubSeq(s, 1, Len(from)) = from
         THEN to \o replace(SubSeq(s, Len(from) + 1, Len(s)), from, to)
         ELSE <<Head(s)>> \o replace(Tail(s), from, to)

API == <<"a", "p", "i", ".">>
REPOS == <<"r", "e", "p", "o", "s", "/">>
PULLS == <<"p", "u", "l", "l", "s">>
PULL == <<"p", "u", "l", "l">>

\* .replace("api.", "").replace("repos/", "").replace("pulls", "pull")
rewrite(u) == replace(replace(replace(u, API, <<>>), REPOS, <<>>), PULLS, PULL)

-----------------------------------------------------------------------------
(* What the remote API may send *)

Organizations == {"acme"}
Tokens == {"secret"}
RepoNames == {"widgets", "gadgets"}
Logins == {"alice", "bob"}
StatusCodes == {200, 401}

\* the "url" of a pull request as the API writes it:
\* //api.{host}/repos/{organization}/{name}/pulls/{number}
api_pull_url(host, organization, name, number) ==
    <<"/", "/">> \o API \o host \o <<"/">> \o REPOS \o organization \o <<"/">>
        \o name \o <<"/">> \o PULLS \o <<"/">> \o number

ApiPullUrl == api_pull_url(<<"h">>, <<"o">>, <<"r">>, <<"1">>)

\* one element of the repository list: an object whose "name" may be missing
RepositoryValues == {[name |-> String(n)] : n \in RepoNames} \cup {[name |-> Null]}

\* bodies of GET /orgs/{org}/repos: Null stands for a body that is no JSON array
RepositoriesBodies ==
    {Null} \cup {Array(a) : a \in SeqsUpTo(RepositoryValues, MaxRepos)}

LoginValues == {String(l) : l \in Logins}
NumberValues == {Number(1), Number(7)}
\* pull["url"]: the API's URL, or Null for a key that is missing or no string
UrlValues == {String(ApiPullUrl), Null}
\* pull["requested_reviewers"]: Null for a key that is missing or no array
RequestedReviewersValues ==
    {Null} \cup {Array(a) : a \in SeqsUpTo({[login |-> l] : l \in LoginValues}, MaxReviewers)}

\* one element of the pull-request list; a missing key reads as Null (Value's Index)
PullValues ==
    [number : NumberValues, url : UrlValues, requested_reviewers : RequestedReviewersValues]

\* the pull requests of one repository have different numbers
DistinctNumbers(a) ==
    \A x, y \in 1..Len(a) : x # y => a[x].number # a[y].number

\* bodies of GET /repos/{org}/{repo}/pulls: Null stands for a body that is no JSON array
PullsBodies ==
    {Null} \cup {Array(a) : a \in {b \in SeqsUpTo(PullValues, MaxPulls) : DistinctNumbers(b)}}

\* a decoder that drops the elements it cannot decode
from_str_repositories_lenient(body) ==
    IF body.t = "Array"
    THEN [ok |-> TRUE,
          value |-> LET named == SelectSeq(body.a, LAMBDA e : e.name.t = "String")
                    IN  [e \in 1..Len(named) |-> named[e].name.s]]
    ELSE [ok |-> FALSE, value |-> <<>>]

\* serde_json::from_str::<Vec<Repository>>: every element needs a string "name"
from_str_repositories(body) ==
    IF body.t = "Array" /\ \A e \in 1..Len(body.a) : body.a[e].name.t = "String"
    THEN [ok |-> TRUE, value |-> [e \in 1..Len(body.a) |-> body.a[e].name.s]]
    ELSE [ok |-> FALSE, value |-> <<>>]

\* a decoder that takes whatever is no array for an empty list
from_str_pulls_or_empty(body) ==
    [ok |-> TRUE, value |-> IF body.t = "Array" THEN body.a ELSE <<>>]

\* serde_json::from_str::<Vec<serde_json::Value>>: any JSON array decodes
from_str_pulls(body) ==
    IF body.t = "Array" THEN [ok |-> TRUE, value |-> body.a]
    ELSE [ok |-> FALSE, value |-> <<>>]

-----------------------------------------------------------------------------
(* Requests and results *)

repositories_url(organization) ==
    "https://api.github.com/orgs/" \o organization \o "/repos"

\* a pull-request URL without the state filter
pulls_url_all(organization, name) ==
    "https://api.github.com/repos/" \o organization \o "/" \o name \o "/pulls"

pulls_url(organization, name) ==
    "https://api.github.com/repos/" \o organization \o "/" \o name \o "/pulls?state=open"

\* headers: AUTHORIZATION = "Bearer {token}"
authorization(token) == "Bearer " \o token

\* a request that reads the token from the form on the page
Request_live(url) == [url |-> url, authorization |-> authorization(model.form.token)]

Request(url) == [url |-> url, authorization |-> authorization(form.token)]

\* the outcome of send().await and text().await: "SendError" when send() fails,
\* "TextError" when the body cannot be read, "Response" when the text is there
Pending == [state |-> "Pending", status |-> 0]
Answer(state, status) == [state |-> state, status |-> status]

NoResult == [kind |-> "None", org |-> <<>>, message |-> ""]
Ok(o) == [kind |-> "Ok", org |-> o, message |-> ""]
Err(m) == [kind |-> "Err", org |-> <<>>, message |-> m]

EmptyOrganization == [reviewers |-> <<>>, repositories |-> <<>>]

-----------------------------------------------------------------------------
(* The page: Model, Msg and LocalStorage *)

EmptyForm == [organization |-> "", token |-> ""]

\* the Model built by init()
InitialModel ==
    [form |-> EmptyForm, organization |-> None, error_message |-> None, loading |-> FALSE]

EmptyStorage == [organization |-> None, token |-> None]

\* enum Msg: a variant without data, with a String, and DataFetched(Result);
\* `of` tells which future of perform_cmd the result comes from
Msg(type) == [type |-> type]
MsgString(type, value) == [type |-> type, value |-> value]
MsgDataFetched(r, n) == [type |-> "DataFetched", result |-> r, of |-> n]

\* a run on its own: no page around it
NoPage ==
    /\ model = InitialModel
    /\ effects = <<>>
    /\ storage = EmptyStorage
    /\ futures = <<>>
    /\ task = 1
    /\ spawned = 1
    /\ edits = 0
    /\ fetched = <<>>

-----------------------------------------------------------------------------
(* Initial state: the future has been created with a copy of the form *)

Init ==
    /\ form \in [organization : Organizations, token : Tokens]
    /\ pc = "start"
    /\ org = EmptyOrganization
    /\ repositories = <<>>
    /\ i = 1
    /\ pulls = <<>>
    /\ j = 1
    /\ reviewers = <<>>
    /\ k = 1
    /\ requests = <<>>
    /\ response = Pending
    /\ repositories_response = None
    /\ pulls_response = None
    /\ api_url = <<>>
    /\ rewritten = <<>>
    /\ result = NoResult
    /\ NoPage

-----------------------------------------------------------------------------
(* fetch_organization_data, one action per await point or loop iteration *)

\* client.get(&repositories_url).headers(..).send()
SendRepositories ==
    /\ pc = "start"
    /\ requests' = Append(requests, Request(repositories_url(form.organization)))
    /\ response' = Pending
    /\ pc' = "await_repositories"
    /\ UNCHANGED <<form, org, repositories, i, pulls, j, reviewers, k,
                   repositories_response, pulls_response, result, elsewhere>>

\* .await on send() and on text(), then the decoding of the body; the API
\* answers with one of `statuses` and one of `bodies`
ReceiveRepositoriesOf(statuses, bodies) ==
    /\ pc = "await_repositories"
    /\ \/ /\ response' = Answer("SendError", 0)
          /\ result' = Err("Failed to fetch repositories from "
                            \o repositories_url(form.organization))
          /\ pc' = "done"
          /\ UNCHANGED <<repositories_response, repositories>>
       \/ \E status \in statuses :
            /\ response' = Answer("TextError", status)
            /\ result' = Err("Failed to parse repositories response")
            /\ pc' = "done"
            /\ UNCHANGED <<repositories_response, repositories>>
       \/ \E status \in statuses, body \in bodies :
            LET decoded == from_str_repositories(body) IN
            /\ response' = Answer("Response", status)
            /\ repositories_response' = Some(body)
            /\ repositories' = IF decoded.ok THEN decoded.value ELSE <<>>
            /\ pc' = "for_repository"
            /\ UNCHANGED result
    /\ UNCHANGED <<form, org, i, pulls, j, reviewers, k, requests, pulls_response,
                   elsewhere>>

ReceiveRepositories == ReceiveRepositoriesOf(StatusCodes, RepositoriesBodies)

\* head of `for repository in &mut repositories`: the next request, or Ok(org)
ForRepository ==
    /\ pc = "for_repository"
    /\ IF i <= Len(repositories)
       THEN /\ requests' = Append(requests,
                                   Request(pulls_url(form.organization, repositories[i])))
            /\ response' = Pending
            /\ pc' = "await_pulls"
            /\ UNCHANGED result
       ELSE /\ result' = Ok(org)
            /\ pc' = "done"
            /\ UNCHANGED <<requests, response>>
    /\ UNCHANGED <<form, org, repositories, i, pulls, j, reviewers, k,
                   repositories_response, pulls_response, elsewhere>>

ReceivePullsOf(statuses, bodies) ==
    /\ pc = "await_pulls"
    /\ \/ /\ response' = Answer("SendError", 0)
          /\ result' = Err("Failed to fetch pull requests from "
                            \o pulls_url(form.organization, repositories[i]))
          /\ pc' = "done"
          /\ UNCHANGED <<pulls_response, pulls, j>>
       \/ \E status \in statuses :
            /\ response' = Answer("TextError", status)
            /\ result' = Err("Failed to parse pull requests response")
            /\ pc' = "done"
            /\ UNCHANGED <<pulls_response, pulls, j>>
       \/ \E status \in statuses, body \in bodies :
            LET decoded == from_str_pulls(body) IN
            /\ response' = Answer("Response", status)
            /\ pulls_response' = Some(body)
            /\ IF decoded.ok
               THEN /\ pulls' = decoded.value
                    /\ j' = 1
                    /\ pc' = "for_pull"
                    /\ UNCHANGED result
               ELSE /\ result' = Err("Failed to parse pull requests")
                    /\ pc' = "done"
                    /\ UNCHANGED <<pulls, j>>
    /\ UNCHANGED <<form, org, repositories, i, reviewers, k, requests,
                   repositories_response, elsewhere>>

ReceivePulls == ReceivePullsOf(StatusCodes, PullsBodies)

\* a registration that looks only at whether the list is empty
register_repository_first_only(o, name) ==
    IF o.repositories # <<>>
    THEN o
    ELSE [o EXCEPT !.repositories = Append(@, [name |-> name])]

\* a registration without the lookup
register_repository_always(o, name) ==
    [o EXCEPT !.repositories = Append(@, [name |-> name])]

\* lines 146-154: the repository of the pull request is pushed unless present
register_repository(o, name) ==
    IF \E r \in 1..Len(o.repositories) : o.repositories[r].name = name
    THEN o
    ELSE [o EXCEPT !.repositories = Append(@, [name |-> name])]

\* head of `for pull in pulls` and the body up to the reviewers array
ForPull ==
    /\ pc = "for_pull"
    /\ IF j <= Len(pulls)
       THEN /\ org' = register_repository(org, repositories[i])
            /\ LET array == as_array(pulls[j].requested_reviewers) IN
               IF ~array.some
               THEN /\ pc' = "panicked"        \* unwrap() on None
                    /\ UNCHANGED <<reviewers, k>>
               ELSE /\ reviewers' = array.value
                    /\ k' = 1
                    /\ pc' = "for_reviewer"
            /\ UNCHANGED i
       ELSE /\ i' = i + 1
            /\ pc' = "for_repository"
            /\ UNCHANGED <<org, reviewers, k>>
    /\ UNCHANGED <<form, repositories, pulls, j, requests, response,
                   repositories_response, pulls_response, result, elsewhere>>

\* a registration that puts a new reviewer at the front of the list
register_reviewer_front(o, login) ==
    IF \E r \in 1..Len(o.reviewers) : o.reviewers[r].name = to_string(login)
    THEN o
    ELSE [o EXCEPT !.reviewers =
             <<[name |-> to_string(login), assigned_pull_requests |-> <<>>]>> \o @]

\* a registration that compares the stored name with the bare login
register_reviewer_bare(o, login) ==
    IF \E r \in 1..Len(o.reviewers) : login.t = "String" /\ o.reviewers[r].name = login.s
    THEN o
    ELSE [o EXCEPT !.reviewers =
             Append(@, [name |-> to_string(login), assigned_pull_requests |-> <<>>])]

\* lines 160-169: the reviewer is pushed unless one with that name is present
register_reviewer(o, login) ==
    IF \E r \in 1..Len(o.reviewers) : o.reviewers[r].name = to_string(login)
    THEN o
    ELSE [o EXCEPT !.reviewers =
             Append(@, [name |-> to_string(login), assigned_pull_requests |-> <<>>])]

\* lines 170-173: iter().position(): the first index with that name, 0 for None
position(o, reviewer_name) ==
    IF \E r \in 1..Len(o.reviewers) : o.reviewers[r].name = reviewer_name
    THEN CHOOSE r \in 1..Len(o.reviewers) :
            /\ o.reviewers[r].name = reviewer_name
            /\ \A q \in 1..(r - 1) : o.reviewers[q].name # reviewer_name
    ELSE 0

\* lines 180-189: the record built for one reviewer of `pull`
pull_request(pull, name) ==
    [id |-> to_string(pull.number),
     url |-> rewrite(as_str(pull.url).value),
     repo_name |-> name]

\* an assignment that skips a pull request the reviewer already holds
assign_once(o, index, record) ==
    IF index = 0 \/ \E a \in 1..Len(o.reviewers[index].assigned_pull_requests) :
                       o.reviewers[index].assigned_pull_requests[a] = record
    THEN o
    ELSE [o EXCEPT !.reviewers[index].assigned_pull_requests = Append(@, record)]

\* lines 175-190: the record is pushed under the reviewer found
assign(o, index, record) ==
    IF index = 0 THEN o
    ELSE [o EXCEPT !.reviewers[index].assigned_pull_requests = Append(@, record)]

\* head of `for reviewer in reviewers` and one iteration of its body
ForReviewer ==
    /\ pc = "for_reviewer"
    /\ IF k <= Len(reviewers)
       THEN LET login == reviewers[k].login
                registered == register_reviewer(org, login)
                index == position(registered, to_string(login))
            IN  IF index # 0 /\ ~as_str(pulls[j].url).some
                THEN /\ org' = registered
                     /\ pc' = "panicked"       \* unwrap() on None
                     /\ UNCHANGED <<j, k>>
                ELSE /\ org' = assign(registered, index,
                                      pull_request(pulls[j], repositories[i]))
                     /\ k' = k + 1
                     /\ UNCHANGED <<pc, j>>
       ELSE /\ j' = j + 1
            /\ pc' = "for_pull"
            /\ UNCHANGED <<org, k>>
    /\ UNCHANGED <<form, repositories, i, pulls, reviewers, requests, response,
                   repositories_response, pulls_response, result, elsewhere>>

-----------------------------------------------------------------------------
(* The URL rewrite of lines 182-187 on its own: pull-request URLs whose     *)
(* repository name is put together from pieces of the three patterns.      *)

Fragments == {API, REPOS, PULLS, <<"s">>, <<"a">>, <<"p", "i", ".">>, <<"r">>}

RECURSIVE Concat(_)
Concat(fs) == IF fs = <<>> THEN <<>> ELSE Head(fs) \o Concat(Tail(fs))

Names == {Concat(fs) : fs \in SeqsUpTo(Fragments, MaxFragments)}

InitRewrite ==
    /\ form \in [organization : Organizations, token : Tokens]
    /\ pc = "start"
    /\ org = EmptyOrganization
    /\ repositories = <<>>
    /\ i = 1
    /\ pulls = <<>>
    /\ j = 1
    /\ reviewers = <<>>
    /\ k = 1
    /\ requests = <<>>
    /\ response = Pending
    /\ repositories_response = None
    /\ pulls_response = None
    /\ result = NoResult
    /\ \E name \in Names : api_url = api_pull_url(<<"h">>, <<"o">>, name, <<"1">>)
    /\ rewritten = <<>>
    /\ NoPage

\* the rewrite applied to the URL, then to what it returned
Rewrite ==
    /\ Len(rewritten) < MaxApplications
    /\ rewritten' = Append(rewritten,
                           rewrite(IF rewritten = <<>> THEN api_url
                                   ELSE rewritten[Len(rewritten)]))
    /\ UNCHANGED <<api_url, run, page>>

NextRewrite == Rewrite

SpecRewrite == InitRewrite /\ [][NextRewrite]_vars

-----------------------------------------------------------------------------
Next ==
    \/ SendRepositories
    \/ ReceiveRepositories
    \/ ForRepository
    \/ ReceivePulls
    \/ ForPull
    \/ ForReviewer

Spec == Init /\ [][Next]_vars

-----------------------------------------------------------------------------
(* The page around the run: init(), update() and the futures of            *)
(* perform_cmd.  update() runs to completion on every message, the         *)
(* messages of send_msg included, before any other event is taken; a       *)
(* future runs from one await point to the next without interruption, so   *)
(* the run variables hold the future being polled and `futures` holds the  *)
(* others.                                                                 *)

\* what the user types into the two inputs
TypedOrganizations == {"acme", "initech"}
TypedTokens == {"secret", "expired"}

\* what LocalStorage holds when the page is opened
StoredForms ==
    {EmptyStorage, [organization |-> Some("acme"), token |-> Some("secret")]}

\* what the API answers to the requests of the page
PageStatusCodes == {200}
PageRepositoriesBodies == {Array(<<[name |-> String("widgets")]>>)}
PagePullsBodies ==
    {Array(<<>>),
     Array(<<[number |-> Number(1), url |-> String(ApiPullUrl),
              requested_reviewers |-> Array(<<[login |-> String("alice")]>>)]>>),
     Array(<<[number |-> Number(1), url |-> String(ApiPullUrl),
              requested_reviewers |-> Null]>>)}

\* Option::unwrap_or_default for a String
unwrap_or_default(option) == IF option.some THEN option.value ELSE ""

\* the future whose state the run variables hold
Future ==
    [task |-> task, form |-> form, pc |-> pc, org |-> org,
     repositories |-> repositories, i |-> i, pulls |-> pulls, j |-> j,
     reviewers |-> reviewers, k |-> k, requests |-> requests, response |-> response,
     repositories_response |-> repositories_response,
     pulls_response |-> pulls_response, result |-> result]

\* the run variables take the state of future f
Polled(f) ==
    /\ task' = f.task /\ form' = f.form /\ pc' = f.pc /\ org' = f.org
    /\ repositories' = f.repositories /\ i' = f.i /\ pulls' = f.pulls /\ j' = f.j
    /\ reviewers' = f.reviewers /\ k' = f.k /\ requests' = f.requests
    /\ response' = f.response /\ repositories_response' = f.repositories_response
    /\ pulls_response' = f.pulls_response /\ result' = f.result

\* async fn fetch_organization_data(form): a future that has not run yet
Created(f, n) ==
    [task |-> n, form |-> f, pc |-> "start", org |-> EmptyOrganization,
     repositories |-> <<>>, i |-> 1, pulls |-> <<>>, j |-> 1, reviewers |-> <<>>,
     k |-> 1, requests |-> <<>>, response |-> Pending,
     repositories_response |-> None, pulls_response |-> None, result |-> NoResult]

Awaiting(p) == p \in {"await_repositories", "await_pulls"}

\* the future polled last is kept while it waits (or has panicked); one that
\* has resolved, and the time before the first future, leave nothing behind
Kept == IF Awaiting(pc) \/ pc = "panicked" THEN Append(futures, Future) ELSE futures

\* nothing is running: no message is queued and no future is between two awaits
Quiescent ==
    /\ effects = <<>>
    /\ Awaiting(pc) \/ pc \in {"none", "panicked", "resolved"}

InitApp ==
    /\ model = InitialModel
    /\ effects = <<Msg("LoadLocalStorage")>>
    /\ storage \in StoredForms
    /\ futures = <<>>
    /\ spawned = 0
    /\ edits = 0
    /\ fetched = <<>>
    /\ task = 0
    /\ form = EmptyForm
    /\ pc = "none"
    /\ org = EmptyOrganization
    /\ repositories = <<>>
    /\ i = 1
    /\ pulls = <<>>
    /\ j = 1
    /\ reviewers = <<>>
    /\ k = 1
    /\ requests = <<>>
    /\ response = Pending
    /\ repositories_response = None
    /\ pulls_response = None
    /\ result = NoResult
    /\ api_url = <<>>
    /\ rewritten = <<>>

\* view(): the spinner, and below it the table of the organization, or the
\* error message when there is no organization, or nothing
view(m) ==
    [spinner |-> m.loading,
     body |-> IF m.organization.some
              THEN [node |-> "table", organization |-> m.organization.value]
              ELSE IF m.error_message.some
                   THEN [node |-> "p", text |-> m.error_message.value]
                   ELSE [node |-> "empty"]]

\* input_ev(Ev::Input, ..) of the two inputs: the user types
InputEvent ==
    /\ Quiescent
    /\ edits < MaxEdits
    /\ \/ \E value \in TypedOrganizations :
             effects' = <<MsgString("Inputorganization", value)>>
       \/ \E value \in TypedTokens :
             effects' = <<MsgString("InputToken", value)>>
    /\ edits' = edits + 1
    /\ UNCHANGED <<model, storage, futures, task, spawned, fetched, run, rewriter>>

\* ev(Ev::Click, ..) of the two buttons: "Submit" and "Fetch data"
ClickEvent ==
    /\ Quiescent
    /\ spawned < MaxRuns
    /\ \/ effects' = <<Msg("SubmitClicked")>>
       \/ effects' = <<Msg("FetchData")>>
    /\ UNCHANGED <<model, storage, futures, task, spawned, edits, fetched, run, rewriter>>

\* update() is called with the oldest queued message
Updating(type) == effects # <<>> /\ Head(effects).type = type

Inputorganization ==
    /\ Updating("Inputorganization")
    /\ model' = [model EXCEPT !.form.organization = Head(effects).value]
    /\ effects' = Tail(effects)
    /\ UNCHANGED <<storage, futures, task, spawned, edits, fetched, run, rewriter>>

InputToken ==
    /\ Updating("InputToken")
    /\ model' = [model EXCEPT !.form.token = Head(effects).value]
    /\ effects' = Tail(effects)
    /\ UNCHANGED <<storage, futures, task, spawned, edits, fetched, run, rewriter>>

SubmitClicked ==
    /\ Updating("SubmitClicked")
    /\ storage' = [organization |-> Some(model.form.organization),
                   token |-> Some(model.form.token)]
    /\ effects' = Append(Tail(effects), Msg("FetchData"))
    /\ UNCHANGED <<model, futures, task, spawned, edits, fetched, run, rewriter>>

LoadLocalStorage ==
    /\ Updating("LoadLocalStorage")
    /\ model' = [model EXCEPT
                    !.form = [organization |-> unwrap_or_default(storage.organization),
                              token |-> unwrap_or_default(storage.token)]]
    /\ effects' = Tail(effects)
    /\ UNCHANGED <<storage, futures, task, spawned, edits, fetched, run, rewriter>>

\* the future is created from a clone of the form and handed to perform_cmd;
\* it is polled once update() has returned
FetchData ==
    /\ Updating("FetchData")
    /\ effects' = Append(Tail(effects), Msg("LoadingStarted"))
    /\ spawned' = spawned + 1
    /\ futures' = Kept
    /\ Polled(Created(model.form, spawned + 1))
    /\ UNCHANGED <<model, storage, edits, fetched, rewriter>>

DataFetched ==
    /\ Updating("DataFetched")
    /\ effects' = Append(Tail(effects), Msg("LoadingFinished"))
    /\ model' = IF Head(effects).result.kind = "Ok"
                THEN [model EXCEPT !.organization = Some(Head(effects).result.org)]
                ELSE [model EXCEPT !.error_message = Some(Head(effects).result.message)]
    /\ fetched' = Append(fetched, [of |-> Head(effects).of,
                                   result |-> Head(effects).result])
    /\ UNCHANGED <<storage, futures, task, spawned, edits, run, rewriter>>

LoadingStarted ==
    /\ Updating("LoadingStarted")
    /\ model' = [model EXCEPT !.loading = TRUE]
    /\ effects' = Tail(effects)
    /\ UNCHANGED <<storage, futures, task, spawned, edits, fetched, run, rewriter>>

LoadingFinished ==
    /\ Updating("LoadingFinished")
    /\ model' = [model EXCEPT !.loading = FALSE]
    /\ effects' = Tail(effects)
    /\ UNCHANGED <<storage, futures, task, spawned, edits, fetched, run, rewriter>>

\* .map(Msg::DataFetched): the future has returned and its message is sent
CmdFinished ==
    /\ effects = <<>>
    /\ pc = "done"
    /\ effects' = <<MsgDataFetched(result, task)>>
    /\ pc' = "resolved"
    /\ UNCHANGED <<form, org, repositories, i, pulls, j, reviewers, k, requests,
                   response, repositories_response, pulls_response, result,
                   model, storage, futures, task, spawned, edits, fetched, rewriter>>

\* the executor goes on with another future that waits for its response
Poll ==
    /\ Quiescent
    /\ \E n \in 1..Len(futures) :
          /\ Awaiting(futures[n].pc)
          /\ Polled(futures[n])
          /\ futures' = IF Awaiting(pc) \/ pc = "panicked"
                        THEN [futures EXCEPT ![n] = Future]
                        ELSE SubSeq(futures, 1, n - 1)
                                \o SubSeq(futures, n + 1, Len(futures))
    /\ UNCHANGED <<model, effects, storage, spawned, edits, fetched, rewriter>>

\* the future being polled goes on once update() has returned
Step ==
    /\ effects = <<>>
    /\ \/ SendRepositories
       \/ ReceiveRepositoriesOf(PageStatusCodes, PageRepositoriesBodies)
       \/ ForRepository
       \/ ReceivePullsOf(PageStatusCodes, PagePullsBodies)
       \/ ForPull
       \/ ForReviewer

Update ==
    \/ Inputorganization
    \/ InputToken
    \/ SubmitClicked
    \/ LoadLocalStorage
    \/ FetchData
    \/ DataFetched
    \/ LoadingStarted
    \/ LoadingFinished

NextApp ==
    \/ InputEvent
    \/ ClickEvent
    \/ Update
    \/ CmdFinished
    \/ Poll
    \/ Step

SpecApp == InitApp /\ [][NextApp]_vars

\* every queued message is processed, every request is answered and every
\* future that can go on is polled
SpecAppFair ==
    /\ SpecApp
    /\ WF_vars(Update)
    /\ WF_vars(Step)
    /\ WF_vars(CmdFinished)
    /\ WF_vars(Poll)

-----------------------------------------------------------------------------
(* Properties *)

NoDuplicates(seq) == \A x, y \in 1..Len(seq) : x # y => seq[x] # seq[y]

ReviewerNames(o) == [r \in 1..Len(o.reviewers) |-> o.reviewers[r].name]
RepositoryNames(o) == [r \in 1..Len(o.repositories) |-> o.repositories[r].name]

\* the assignments held under the reviewer of that name, <<>> when there is none
Assigned(o, name) ==
    IF \E r \in 1..Len(o.reviewers) : o.reviewers[r].name = name
    THEN o.reviewers[CHOOSE r \in 1..Len(o.reviewers) :
                        o.reviewers[r].name = name].assigned_pull_requests
    ELSE <<>>

RECURSIVE TotalRecords(_)
TotalRecords(entries) ==
    IF entries = <<>> THEN 0
    ELSE Len(Head(entries).assigned_pull_requests) + TotalRecords(Tail(entries))

Returned == pc = "done" /\ result.kind = "Ok"

Is2xx(status) == status \in 200..299

\* C1: at every point of a run and in the returned Organization, no two
\* reviewers have the same name and no two repositories have the same name.
Deduplicated(o) == NoDuplicates(ReviewerNames(o)) /\ NoDuplicates(RepositoryNames(o))

C1_NoDuplicateNames ==
    /\ Deduplicated(org)
    /\ result.kind = "Ok" => Deduplicated(result.org)

\* the repository list names one repository twice, its last pull request names
\* one login twice, and that login was requested on several pull requests
C1_Witness ==
    /\ Returned
    /\ Len(repositories) = 2 /\ repositories[1] = repositories[2]
    /\ Len(reviewers) = 2 /\ reviewers[1] = reviewers[2]
    /\ Len(result.org.repositories) = 1
    /\ Len(Assigned(result.org, to_string(reviewers[1].login))) >= 4

\* C2: at every point of a run and in the returned Organization, the repo_name
\* of every assigned PullRequest is the name of an entry of repositories.
RepoNamesRegistered(o) ==
    \A r \in 1..Len(o.reviewers) :
        \A a \in 1..Len(o.reviewers[r].assigned_pull_requests) :
            \E q \in 1..Len(o.repositories) :
                o.repositories[q].name = o.reviewers[r].assigned_pull_requests[a].repo_name

C2_RepoNameRegistered ==
    /\ RepoNamesRegistered(org)
    /\ result.kind = "Ok" => RepoNamesRegistered(result.org)

\* one reviewer holds pull requests of two repositories in the returned value
C2_Witness ==
    /\ Returned
    /\ Len(result.org.repositories) = 2
    /\ \E r \in 1..Len(result.org.reviewers) :
          LET held == result.org.reviewers[r].assigned_pull_requests IN
          \E a, b \in 1..Len(held) : held[a].repo_name # held[b].repo_name

\* C3: fan-out. Every iteration of the reviewer loop that completes appends
\* exactly one record, under the reviewer named by that entry, built from the
\* pull request being processed (its id, url and repo_name), and nothing else
\* changes the assignment lists or adds a reviewer; the loop runs once for
\* each of the N entries, so a pull request adds N records and, for N = 0,
\* no reviewer and no record.
IteratingReviewer == pc = "for_reviewer" /\ k <= Len(reviewers)

C3_FanOut ==
    [][ /\ (IteratingReviewer /\ pc' # "panicked") =>
              LET name == to_string(reviewers[k].login)
                  record == [id |-> to_string(pulls[j].number),
                             url |-> rewrite(pulls[j].url.s),
                             repo_name |-> repositories[i]]
              IN  /\ Assigned(org', name) = Append(Assigned(org, name), record)
                  /\ \A r \in 1..Len(org.reviewers) :
                        org.reviewers[r].name # name => org'.reviewers[r] = org.reviewers[r]
                  /\ TotalRecords(org'.reviewers) = TotalRecords(org.reviewers) + 1
                  /\ k' = k + 1 /\ reviewers' = reviewers
                  /\ pulls' = pulls /\ j' = j /\ i' = i /\ repositories' = repositories
        /\ ~IteratingReviewer => org'.reviewers = org.reviewers
        /\ (pc = "for_pull" /\ pc' = "for_reviewer") =>
              k' = 1 /\ reviewers' = pulls[j].requested_reviewers.a
        /\ (pc = "for_reviewer" /\ pc' = "for_pull") => k = Len(reviewers) + 1
      ]_vars

\* both entries of a pull request with two different logins have been processed
C3_Witness ==
    /\ pc = "for_reviewer" /\ k = 3
    /\ reviewers[1] # reviewers[2]
    /\ \A e \in 1..2 :
          LET held == Assigned(org, to_string(reviewers[e].login)) IN
          /\ held # <<>>
          /\ held[Len(held)] = [id |-> to_string(pulls[j].number),
                                 url |-> rewrite(pulls[j].url.s),
                                 repo_name |-> repositories[i]]

\* C4 as stated: every entry of the returned repositories is referenced by a
\* reviewer assignment (a repository whose pull requests all have no requested
\* reviewers does not appear).
C4_LazyRegistration ==
    result.kind = "Ok" =>
        \A q \in 1..Len(result.org.repositories) :
            \E r \in 1..Len(result.org.reviewers) :
                \E a \in 1..Len(result.org.reviewers[r].assigned_pull_requests) :
                    result.org.reviewers[r].assigned_pull_requests[a].repo_name
                        = result.org.repositories[q].name

\* C4 amended: a repository is appended to repositories, unless it is there,
\* when a pull request of its list is processed, with or without requested
\* reviewers; nothing else changes repositories, so a repository whose list
\* of open pull requests is empty is never added.
C4_RegisteredByPullRequest ==
    [][ IF pc = "for_pull" /\ j <= Len(pulls)
        THEN org'.repositories =
                IF \E q \in 1..Len(org.repositories) :
                        org.repositories[q].name = repositories[i]
                THEN org.repositories
                ELSE Append(org.repositories, [name |-> repositories[i]])
        ELSE org'.repositories = org.repositories
      ]_vars

\* a repository is returned although no reviewer was requested anywhere, next
\* to a repository with an empty list that is not returned
C4_Witness ==
    /\ Returned
    /\ Len(repositories) = 2
    /\ RepositoryNames(result.org) = <<repositories[1]>>
    /\ result.org.reviewers = <<>>
    /\ pulls = <<>>

\* C5: when the body of the repository-list response does not decode as a
\* list of objects with a string name, the list is taken as empty, no
\* pull-request request is issued and the run returns Ok with an empty
\* Organization.
Undecodable(body) ==
    \/ body.t # "Array"
    \/ \E e \in 1..Len(body.a) : body.a[e].name.t # "String"

C5_FailOpenRepositories ==
    (repositories_response.some /\ Undecodable(repositories_response.value)) =>
        /\ repositories = <<>>
        /\ Len(requests) = 1
        /\ org = EmptyOrganization
        /\ pc \in {"for_repository", "done"}
        /\ pc = "done" => result = Ok(EmptyOrganization)

\* the body is a list in which one element has a name and the other has none
C5_Witness ==
    /\ Returned
    /\ repositories_response.some
    /\ repositories_response.value.t = "Array"
    /\ Len(repositories_response.value.a) = 2
    /\ repositories_response.value.a[1].name.t = "String"
    /\ repositories_response.value.a[2].name.t = "Null"
    /\ result = Ok(EmptyOrganization)

\* C6: when the body of a pull-request response, of the first repository or
\* of a later one, is no list, the run returns the error "Failed to parse
\* pull requests" and no Organization, whatever was accumulated before.
C6_PullsParseError ==
    (pulls_response.some /\ pulls_response.value.t # "Array") =>
        /\ pc = "done"
        /\ result = Err("Failed to parse pull requests")

\* the second repository's body is no list after the first one gave assignments
C6_Witness ==
    /\ pc = "done"
    /\ i = 2
    /\ pulls_response.value.t = "Null"
    /\ TotalRecords(org.reviewers) >= 2
    /\ result.kind = "Err"

\* C7: a pull request whose requested_reviewers is absent or no list makes
\* the run return an error; the run does not stop without a result.
C7_ReviewersShapeError ==
    (pc # "for_pull" /\ j <= Len(pulls) /\ pulls[j].requested_reviewers.t # "Array") =>
        /\ pc = "done"
        /\ result.kind = "Err"

\* C8: with two repositories, a non-2xx status on the second repository's
\* pull-request request makes the run return the error that names that
\* request's URL, and no Organization.
C8_NetworkErrorSecondRepository ==
    (/\ Len(repositories) = 2 /\ Len(requests) = 3
     /\ response.state = "Response" /\ ~Is2xx(response.status)
     /\ pc = "done") =>
        result = Err("Failed to fetch pull requests from "
                      \o pulls_url(form.organization, repositories[2]))

\* C9: when the repository-list request is answered with a non-2xx status the
\* run returns a NetworkError (the error of a request that failed, naming its
\* URL) and never Ok.
IsNetworkError(message) ==
    \E q \in 1..Len(requests) :
        \/ message = "Failed to fetch repositories from " \o requests[q].url
        \/ message = "Failed to fetch pull requests from " \o requests[q].url

C9_CredentialNetworkError ==
    (Len(requests) = 1 /\ response.state = "Response" /\ ~Is2xx(response.status)) =>
        /\ result.kind # "Ok"
        /\ pc = "done" => (result.kind = "Err" /\ IsNetworkError(result.message))

Contains(s, sub) ==
    \E p \in 1..(Len(s) - Len(sub) + 1) : SubSeq(s, p, p + Len(sub) - 1) = sub

\* C10: URL rewrite idempotence: rewriting the output of the rewrite again
\* yields the same string, and the output of the rewrite contains none of
\* "api.", "repos/" and "pulls".
C10_RewriteIdempotent ==
    /\ Len(rewritten) >= 1 =>
          /\ ~Contains(rewritten[1], API)
          /\ ~Contains(rewritten[1], REPOS)
          /\ ~Contains(rewritten[1], PULLS)
    /\ Len(rewritten) >= 2 => rewritten[2] = rewritten[1]

\* what section 4.3 asks of the rewrite: //H/O/R/pull/N for //api.H/repos/O/R/pulls/N
web_pull_url(host, organization, name, number) ==
    <<"/", "/">> \o host \o <<"/">> \o organization \o <<"/">> \o name
                 \o <<"/">> \o PULL \o <<"/">> \o number

\* C11: for every host H, organisation O, repository R and number N the url
\* stored for https://api.H/repos/O/R/pulls/N is exactly https://H/O/R/pull/N:
\* O, R and N come out unchanged, also when R itself contains "api.",
\* "repos/" or "pulls".
C11_RewriteResult ==
    \A name \in Names :
        (api_url = api_pull_url(<<"h">>, <<"o">>, name, <<"1">>) /\ Len(rewritten) >= 1) =>
            rewritten[1] = web_pull_url(<<"h">>, <<"o">>, name, <<"1">>)

IsPrefix(a, b) == Len(a) <= Len(b) /\ SubSeq(b, 1, Len(a)) = a

Range(seq) == {seq[n] : n \in 1..Len(seq)}

\* the lists of o2 are those of o with entries added at the end only
AppendedTo(o, o2) ==
    /\ IsPrefix(o.repositories, o2.repositories)
    /\ IsPrefix(ReviewerNames(o), ReviewerNames(o2))
    /\ \A r \in 1..Len(o.reviewers) :
          IsPrefix(o.reviewers[r].assigned_pull_requests,
                   o2.reviewers[r].assigned_pull_requests)

\* a list of org grows by the repository, or the reviewer, of the pull request
\* being processed, and the loops only move forward
RegisteredNow ==
    /\ org'.repositories # org.repositories =>
          /\ pc = "for_pull"
          /\ org'.repositories = Append(org.repositories, [name |-> repositories[i]])
    /\ Len(org'.reviewers) # Len(org.reviewers) =>
          /\ pc = "for_reviewer"
          /\ ReviewerNames(org') =
                Append(ReviewerNames(org), to_string(reviewers[k].login))
    /\ i' >= i
    /\ pc \in {"for_pull", "for_reviewer"} => j' >= j
    /\ (pc = "for_reviewer" /\ j' = j) => k' >= k

\* the records of the scenario of section 8: PR #1 of widgets, PR #7 of gadgets
Widgets1 == [id |-> "1", url |-> rewrite(ApiPullUrl), repo_name |-> "widgets"]
Gadgets7 == [id |-> "7", url |-> rewrite(ApiPullUrl), repo_name |-> "gadgets"]

ScenarioOrganization ==
    [repositories |-> <<[name |-> "widgets"], [name |-> "gadgets"]>>,
     reviewers |->
        <<[name |-> to_string(String("alice")),
           assigned_pull_requests |-> <<Widgets1, Gadgets7>>],
          [name |-> to_string(String("bob")),
           assigned_pull_requests |-> <<Gadgets7>>]>>]

\* a run over [widgets, gadgets] that returned the records of the scenario
\* (alice holds #1 of widgets and #7 of gadgets, bob holds #7 of gadgets),
\* in whatever order
ScenarioRecords(o) ==
    /\ repositories = <<"widgets", "gadgets">>
    /\ Range(RepositoryNames(o)) = {"widgets", "gadgets"}
    /\ Len(o.reviewers) = 2
    /\ Range(ReviewerNames(o)) = {to_string(String("alice")), to_string(String("bob"))}
    /\ Len(Assigned(o, to_string(String("alice")))) = 2
    /\ Range(Assigned(o, to_string(String("alice")))) = {Widgets1, Gadgets7}
    /\ Assigned(o, to_string(String("bob"))) = <<Gadgets7>>

\* C12: first-seen order.  Repositories stand in the order of the first
\* processed pull request that registered them (the order of the repository
\* list), reviewers in the order of the first pull request naming them, and
\* each reviewer's assigned_pull_requests in processing order: every list only
\* grows at its end.  For [widgets, gadgets] with alice on #1 of widgets and
\* alice, bob on #7 of gadgets the result is repositories = [widgets, gadgets],
\* reviewers = [alice, bob], alice = [(widgets, 1), (gadgets, 7)],
\* bob = [(gadgets, 7)].
C12_FirstSeenOrder ==
    /\ []((Returned /\ ScenarioRecords(result.org)) => result.org = ScenarioOrganization)
    /\ [][AppendedTo(org, org')]_vars
    /\ [][RegisteredNow]_vars

C12_Witness == Returned /\ result.org = ScenarioOrganization

\* C13 as stated: the name stored in each Reviewer is the login string as the
\* API gave it, with no character added or removed (no surrounding quotes).
C13_RawLogin == Range(ReviewerNames(org)) \subseteq Logins

\* C13: the name stored in each Reviewer is the JSON text of the login, that
\* is the login string inside a pair of double quotes; the reviewer of the
\* entry being processed is held under that name.
C13_SerializedLogin ==
    /\ [](Range(ReviewerNames(org)) \subseteq {"\"" \o l \o "\"" : l \in Logins})
    /\ [][IteratingReviewer =>
             ("\"" \o reviewers[k].login.s \o "\"") \in Range(ReviewerNames(org'))]_vars

C13_Witness ==
    /\ Returned
    /\ result.org.reviewers # <<>>
    /\ result.org.reviewers[1].name = "\"alice\""

\* C14: every run ends in exactly one of two outcomes, Ok with a complete
\* Organization or Err with a description: it holds a result exactly when it
\* has ended, and once a pull-request list has been decoded the aggregation
\* never stops abnormally, whatever the pull objects look like (url missing
\* or no string, requested_reviewers missing).
C14_TotalAggregation ==
    /\ pc # "panicked"
    /\ pc = "done" <=> result.kind \in {"Ok", "Err"}
    /\ pc # "done" => result = NoResult

\* the requests issued so far: the repository list first, then the pull
\* requests of the repositories in list order, one per entry reached
RequestOrder ==
    /\ requests # <<>> =>
          requests[1].url = "https://api.github.com/orgs/" \o form.organization \o "/repos"
    /\ \A n \in 2..Len(requests) :
          requests[n].url = "https://api.github.com/repos/" \o form.organization
                               \o "/" \o repositories[n - 1] \o "/pulls?state=open"
    /\ Len(requests) <= 1 + Len(repositories)
    /\ pc \in {"await_pulls", "for_pull", "for_reviewer"} => Len(requests) = i + 1
    /\ pc = "for_repository" => Len(requests) = i
    /\ response.state = "Pending" <=> pc \in {"start", "await_repositories", "await_pulls"}

\* a request is issued only when the one before it has been answered, and it
\* is added after those issued before, which stay as they were
OneOutstanding ==
    requests' # requests =>
        /\ requests = <<>> \/ response.state = "Response"
        /\ Len(requests') = Len(requests) + 1
        /\ IsPrefix(requests, requests')
        /\ response'.state = "Pending"

TransportFailed == response.state \in {"SendError", "TextError"}

RepositoriesUndecodable ==
    repositories_response.some /\ ~from_str_repositories(repositories_response.value).ok

PullsUndecodable == pulls_response.some /\ pulls_response.value.t # "Array"

\* C15 as stated: the repository-list request comes first, then one
\* pull-request request per entry of the repository list in list order, at
\* most one outstanding, none repeated; after the first request or decode that
\* fails no further request is issued and the run returns Err.
C15_RequestProtocol ==
    /\ [](RequestOrder)
    /\ []((TransportFailed \/ RepositoriesUndecodable \/ PullsUndecodable) =>
             (pc = "done" /\ result.kind = "Err"))
    /\ [][OneOutstanding]_vars

\* C15: the same order of requests; a send() or text() that fails, or a
\* pull-request body that is no JSON array, ends the run with Err and no
\* further request; a repository-list body that cannot be decoded is not a
\* failure: it is an empty list, no further request is issued and the run
\* returns Ok with an empty Organization.
C15_RequestProtocolFailOpen ==
    /\ [](RequestOrder)
    /\ []((TransportFailed \/ PullsUndecodable) =>
             /\ pc = "done" /\ result.kind = "Err"
             /\ Len(requests) = IF repositories_response.some THEN i + 1 ELSE 1)
    /\ [](RepositoriesUndecodable =>
             /\ repositories = <<>> /\ Len(requests) = 1
             /\ result.kind # "Err"
             /\ pc = "done" => result = Ok(EmptyOrganization))
    /\ [][OneOutstanding /\ (result.kind = "Err" => requests' = requests)]_vars

\* the request for the second repository's pull requests failed in transport
C15_Witness ==
    /\ pc = "done" /\ result.kind = "Err"
    /\ Len(requests) = 3 /\ response.state = "SendError"

\* C16: whenever update() processes DataFetched(Err(e)), the view rendered
\* from the resulting model shows the message of e, whatever happened before,
\* also when an earlier run succeeded and model.organization is Some.
C16_ErrorShown ==
    [][(Updating("DataFetched") /\ Head(effects).result.kind = "Err") =>
          view(model').body = [node |-> "p", text |-> Head(effects).result.message]]_vars

\* every request future f has issued carries the organization and the token
\* of the form f was created with
FromOwnForm(f) ==
    \A q \in 1..Len(f.requests) :
        /\ f.requests[q].authorization = "Bearer " \o f.form.token
        /\ f.requests[q].url =
              IF q = 1
              THEN "https://api.github.com/orgs/" \o f.form.organization \o "/repos"
              ELSE "https://api.github.com/repos/" \o f.form.organization \o "/"
                      \o f.repositories[q - 1] \o "/pulls?state=open"

\* C17: the organisation name and the credential of a run are fixed when
\* Msg::FetchData is processed: the run is created with the form of that
\* moment, keeps it, and every request it issues uses it; Inputorganization,
\* InputToken and LoadLocalStorage processed while the run is in flight
\* change neither the form of a run nor the requests it has issued.
C17_FormFixedAtFetchData ==
    /\ [](FromOwnForm(Future) /\ \A n \in 1..Len(futures) : FromOwnForm(futures[n]))
    /\ [][Updating("FetchData") => (form' = model.form /\ requests' = <<>>)]_vars
    /\ [][task' = task => (form' = form /\ IsPrefix(requests, requests'))]_vars
    /\ [][(Updating("Inputorganization") \/ Updating("InputToken")
             \/ Updating("LoadLocalStorage")) =>
          UNCHANGED <<form, requests, futures, task>>]_vars

\* a run waits for its second response after the form on the page was edited
C17_Witness ==
    /\ pc = "await_pulls" /\ Len(requests) = 2
    /\ edits >= 1 /\ effects = <<>>
    /\ model.form # form

\* the futures handed to perform_cmd whose DataFetched has not been processed
InFlight == {n \in 1..spawned : \A f \in 1..Len(fetched) : fetched[f].of # n}

\* C18: once the LoadingStarted of a FetchData has been processed,
\* model.loading is true for as long as at least one fetch that was started
\* has not had its DataFetched and LoadingFinished processed, also when
\* FetchData comes again while an earlier fetch is in flight.
C18_LoadingWhileInFlight ==
    (effects = <<>> /\ InFlight # {}) => model.loading

\* the result the future numbered n delivered
FetchedOf(n) == fetched[CHOOSE f \in 1..Len(fetched) : fetched[f].of = n].result

\* C19: when FetchData has been processed more than once and all runs
\* succeed, then after every DataFetched has been processed
\* model.organization holds the result of the run that was started last,
\* in whatever order the runs completed.
C19_LastStartedWins ==
    (/\ spawned >= 2 /\ InFlight = {}
     /\ \A n \in 1..spawned : FetchedOf(n).kind = "Ok") =>
        model.organization = Some(FetchedOf(spawned).org)

\* what the page does by itself, without the user
Progress == Update \/ Step \/ CmdFinished \/ Poll

\* C20: when every request is answered and every queued message is
\* processed, every FetchData is followed by the DataFetched of its run, and
\* once no run is in flight model.loading becomes false and stays false
\* until the next FetchData.  So while a run is in flight or the flag is on,
\* the page is never left without a step of its own to take.
C20_LoadingEnds ==
    /\ []((InFlight # {} \/ model.loading) => ENABLED Progress)
    /\ \A n \in 1..MaxRuns : (spawned >= n) ~> (spawned >= n /\ n \notin InFlight)
    /\ (InFlight = {}) ~> ~model.loading
    /\ [][(InFlight = {} /\ ~model.loading /\ spawned' = spawned) =>
             ~model.loading']_vars

====
